---- MODULE Spec2Model ----
(***************************************************************************)
(* Entropy scanner (scanner.py) and block-entropy profile                  *)
(* (visualize_entropy.py).                                                 *)
(*                                                                         *)
(* Numbers.  The programs compute in double precision; the model computes  *)
(* in fixed point.  log2 is LgFix, with FracBits fractional bits, and an   *)
(* entropy value is an integer number of units, EntropyOne units making    *)
(* 1.0.  LgFix is exact on powers of two, so the entropy of a buffer whose *)
(* byte counts and length are powers of two is exact; on other buffers it  *)
(* is approximate, to about FracBits - 1 bits.                             *)
(*                                                                         *)
(* Buffers.  The scanner's file content is kept as a sequence of segments, *)
(* so that files larger than 10000 bytes and files using all 256 byte      *)
(* values can be drawn.  The block profile slices its buffer, and keeps it *)
(* as an explicit sequence of bytes.                                       *)
(***************************************************************************)
EXTENDS Integers, Sequences, FiniteSets, TLC

VARIABLES
    pc,          \* position of main(): construct, ready, analysed, predict, ...
    HAS_NUMPY,   \* module flag set by the import at scanner.py:9-13
    model,       \* self.model
    read,        \* outcome of opening and reading the file
    data,        \* the bytes read, as segments
    file_size,   \* len(data)
    entropy,     \* calculate_entropy(data), in entropy units
    prediction,  \* self.model.predict(features)
    prob,        \* self.model.predict_proba(features)
    confidence,  \* the local `confidence`
    exc,         \* the exception caught at scanner.py:114 ("none" when none)
    stdout,      \* the lines printed so far
    v_pc,        \* position of a call of calculate_local_entropy
    v_data,      \* its argument data, a sequence of bytes
    v_window,    \* its argument window_size
    v_result     \* what the call did: the list returned, or the exception

scan_vars == <<pc, HAS_NUMPY, model, read, data, file_size, entropy,
               prediction, prob, confidence, exc, stdout>>
vis_vars == <<v_pc, v_data, v_window, v_result>>
vars == <<pc, HAS_NUMPY, model, read, data, file_size, entropy, prediction,
          prob, confidence, exc, stdout, v_pc, v_data, v_window, v_result>>

---------------------------------------------------------------------------
(* Bounds of the model *)

MaxLen == 3       \* longest buffer given byte by byte
MaxByte == 2      \* byte values 0..MaxByte in those buffers
MaxLgSize == 14   \* files given as segments have up to 2^MaxLgSize bytes
MaxWindow == 4    \* window sizes -MaxWindow..MaxWindow
MaxLabel == 2     \* labels 0..MaxLabel returned by predict
ProbScale == 4    \* class probabilities are multiples of 1/ProbScale
FracBits == 10    \* fractional bits of the fixed-point log2
MantBits == 13    \* mantissa bits used while computing it

(* Constants of the programs *)

NumByteValues == 256          \* byte_counts = [0] * 256
LogBase == 256                \* math.log(p, 256)
HighEntropyThreshold == 7     \* entropy > 7.0
LowEntropyThreshold == 3      \* entropy < 3.0
LargeFileSize == 10000        \* file_size > 10000
FullConfidence == 100         \* confidence = 100.0, and max(prob[0]) * 100

---------------------------------------------------------------------------
(* Arithmetic *)

Pow2(k) == 2^k

RECURSIVE ILog2(_)
ILog2(x) == IF x < 2 THEN 0 ELSE 1 + ILog2(x \div 2)

Min(a, b) == IF a < b THEN a ELSE b

LgScale == Pow2(FracBits)

\* x scaled into [2^MantBits, 2^(MantBits+1))
Mantissa(x) ==
    LET e == ILog2(x)
    IN  IF e <= MantBits THEN x * Pow2(MantBits - e)
                         ELSE x \div Pow2(e - MantBits)

\* the k fractional bits of log2 of the mantissa y, by repeated squaring
RECURSIVE FracLog(_, _)
FracLog(y, k) ==
    IF k = 0 THEN 0
    ELSE LET z == (y * y) \div Pow2(MantBits)
         IN  IF z >= Pow2(MantBits + 1)
             THEN Pow2(k - 1) + FracLog(z \div 2, k - 1)
             ELSE FracLog(z, k - 1)

\* log2(x) in units of 1/LgScale, x >= 1
LgFix(x) == ILog2(x) * LgScale + FracLog(Mantissa(x), FracBits)

\* entropy units per 1.0: log base 256 is log2 divided by 8
EntropyOne == ILog2(LogBase) * LgScale

---------------------------------------------------------------------------
(* Byte buffers: a sequence of segments <<first, last, reps>>, each         *)
(* standing for the bytes first, first+1, ..., last, repeated reps times   *)

\* an explicit byte sequence, one segment per byte
Explicit(bytes) == [i \in 1..Len(bytes) |-> <<bytes[i], bytes[i], 1>>]

\* len(data)
RECURSIVE BufLen(_)
BufLen(buf) ==
    IF buf = <<>> THEN 0
    ELSE (buf[1][2] - buf[1][1] + 1) * buf[1][3] + BufLen(Tail(buf))

\* for byte in data: byte_counts[byte] += 1, for the bucket of `byte`
RECURSIVE CountBytes(_, _)
CountBytes(buf, byte) ==
    IF buf = <<>> THEN 0
    ELSE (IF buf[1][1] <= byte /\ byte <= buf[1][2] THEN buf[1][3] ELSE 0)
         + CountBytes(Tail(buf), byte)

\* byte_counts = [0] * 256, then the counting loop
Histogram(buf) ==
    [byte \in 0..(NumByteValues - 1) |-> CountBytes(buf, byte)]

---------------------------------------------------------------------------
(* calculate_entropy *)

\* the sign-flipped accumulation, entropy += p * math.log(p, 256)
EntropyTermFlipped(count, total) == count * (LgFix(count) - LgFix(total))

\* p = 1.0 * count / total; -(p * math.log(p, 256)), times total * EntropyOne
EntropyTerm(count, total) == count * (LgFix(total) - LgFix(count))

\* for count in byte_counts: if count == 0: continue; entropy -= ...
\* over the buckets lo..hi
RECURSIVE SumTerms(_, _, _, _)
SumTerms(byte_counts, lo, hi, total) ==
    IF lo = hi
    THEN LET count == byte_counts[lo]
         IN  IF count = 0 THEN 0 ELSE EntropyTerm(count, total)
    ELSE LET mid == (lo + hi) \div 2
         IN  SumTerms(byte_counts, lo, mid, total)
             + SumTerms(byte_counts, mid + 1, hi, total)

calculate_entropy(buf) ==
    IF buf = <<>> THEN 0
    ELSE LET total == BufLen(buf)
         IN  SumTerms(Histogram(buf), 0, NumByteValues - 1, total) \div total

---------------------------------------------------------------------------
(* The files main() may be given *)

RECURSIVE SeqsUpTo(_, _)
SeqsUpTo(S, n) ==
    IF n = 0 THEN {<<>>}
    ELSE LET shorter == SeqsUpTo(S, n - 1)
         IN  shorter \cup {Append(s, x) : s \in shorter, x \in S}

SmallBuffers == SeqsUpTo(0..MaxByte, MaxLen)

\* 2^lk byte values, each reps times: entropy lk/8
Ramp(lk, reps) == <<<<0, Pow2(lk) - 1, reps>>>>

\* 2^lk byte values, 2^ls bytes
Uniform(lk, ls) == Ramp(lk, Pow2(ls - lk))

\* byte 0 fills half the file, 2^lk other values share the rest:
\* entropy (1 + lk/2)/8
HalfAndHalf(lk, ls) ==
    <<<<0, 0, Pow2(ls - 1)>>, <<1, Pow2(lk), Pow2(ls - 1 - lk)>>>>

\* 64 byte values twice as frequent as 128 others: entropy 7.5/8
TwoTier(ls) == <<<<0, 63, Pow2(ls - 7)>>, <<64, 191, Pow2(ls - 8)>>>>

\* files of exactly LargeFileSize bytes, and the next size up
AtLargeFileSize(lk) ==
    {Ramp(lk, LargeFileSize \div Pow2(lk)),
     Ramp(lk, LargeFileSize \div Pow2(lk) + 1)}

Files ==
    {Explicit(b) : b \in SmallBuffers}
    \cup {Uniform(lk, ls) : lk \in 0..8, ls \in 8..MaxLgSize}
    \cup {HalfAndHalf(lk, ls) : lk \in 1..7, ls \in 8..MaxLgSize}
    \cup {TwoTier(ls) : ls \in 8..MaxLgSize}
    \cup UNION {AtLargeFileSize(lk) : lk \in 0..4}

---------------------------------------------------------------------------
(* Values of the scanner *)

\* a printed line: its kind, its text and its number
Line(k, s, n) == [k |-> k, s |-> s, n |-> n]

NoModel == [loaded |-> FALSE, has_predict_proba |-> FALSE]

\* a number, or an array where a number was expected
Num(v) == [t |-> "num", v |-> v, a |-> <<>>]
Arr(a) == [t |-> "arr", v |-> 0, a |-> a]

\* what predict may return for the one sample: its label, or nothing
Predictions == {<<l>> : l \in 0..MaxLabel} \cup {<<>>}

\* a row of class probabilities, in units of 1/ProbScale
ProbRows == {<<p, ProbScale - p>> : p \in 0..ProbScale}

\* what predict_proba may return: one row per sample (2d), or a further
\* level of nesting around the rows (3d)
ProbOutputs == [shape : {"2d", "3d"}, row : ProbRows]

NoProb == [shape |-> "2d", row |-> <<>>]

RECURSIVE SeqMax(_)
SeqMax(s) ==
    IF Len(s) = 1 THEN s[1]
    ELSE LET m == SeqMax(Tail(s)) IN IF s[1] > m THEN s[1] ELSE m

\* max(prob[0]) * 1000: a slip in the percent factor
confidence_permille(p) ==
    IF p.shape = "2d" THEN Num(SeqMax(p.row) * 10 * FullConfidence)
    ELSE Arr(p.row)

\* max(prob[0]) * 100, in units of 1/ProbScale percent: prob[0] is the row
\* of the sample, or the one-row matrix whose max is that row
confidence_of(p) ==
    IF p.shape = "2d" THEN Num(SeqMax(p.row) * FullConfidence)
    ELSE Arr(p.row)

\* f"{confidence:.2f}": hundredths of a percent, rounded
Format2(c) == (c.v * 200 + ProbScale) \div (2 * ProbScale)

\* f"{entropy:.4f}": ten-thousandths, rounded
Format4(e) == (e * 20000 + EntropyOne) \div (2 * EntropyOne)

\* is_malicious = prediction[0] == 1; status = ...
status_of(pred) == IF pred[1] = 1 THEN "MALICIOUS" ELSE "BENIGN"

\* _heuristic_scan(entropy, file_size): the lines it prints
heuristic_scan(ent, size) ==
    <<Line("heuristic", "Using Heuristic Analysis", 0)>> \o
    (IF ent > HighEntropyThreshold * EntropyOne
     THEN <<Line("verdict", "SUSPICIOUS", 0),
            Line("reason", "High entropy detected", 0)>>
     ELSE IF ent < LowEntropyThreshold * EntropyOne /\ size > LargeFileSize
     THEN <<Line("verdict", "SUSPICIOUS", 0),
            Line("reason", "Low entropy for large file", 0)>>
     ELSE <<Line("verdict", "CLEAN", 0),
            Line("reason", "Entropy levels within normal parameters", 0)>>)

\* the branch chosen by the file, as if line 90 also tested the entropy
use_model_if_random == model.loaded /\ HAS_NUMPY /\ entropy > 0

\* if self.model and HAS_NUMPY
use_model == model.loaded /\ HAS_NUMPY

---------------------------------------------------------------------------
(* SimpleScanner.__init__ and load_model *)

scan_locals == <<read, data, file_size, entropy, prediction, prob,
                 confidence, exc>>

load_model_no_numpy ==
    /\ pc = "construct"
    /\ ~HAS_NUMPY
    /\ stdout' = Append(stdout, Line("warning", "numpy not found", 0))
    /\ pc' = "ready"
    /\ UNCHANGED <<HAS_NUMPY, model, scan_locals, vis_vars>>

\* no --model path, or no file at it
load_model_no_file ==
    /\ pc = "construct"
    /\ HAS_NUMPY
    /\ stdout' = Append(stdout, Line("info", "Using heuristic mode", 0))
    /\ pc' = "ready"
    /\ UNCHANGED <<HAS_NUMPY, model, scan_locals, vis_vars>>

\* gzip.open, open or pickle.load raises
load_model_raises ==
    /\ pc = "construct"
    /\ HAS_NUMPY
    /\ stdout' = stdout \o <<Line("info", "Loading model", 0),
                             Line("warning", "Failed to load model", 0)>>
    /\ pc' = "ready"
    /\ UNCHANGED <<HAS_NUMPY, model, scan_locals, vis_vars>>

load_model_loads ==
    /\ pc = "construct"
    /\ HAS_NUMPY
    /\ \E hp \in BOOLEAN :
          model' = [loaded |-> TRUE, has_predict_proba |-> hp]
    /\ stdout' = stdout \o <<Line("info", "Loading model", 0),
                             Line("info", "Model loaded successfully", 0)>>
    /\ pc' = "ready"
    /\ UNCHANGED <<HAS_NUMPY, scan_locals, vis_vars>>

---------------------------------------------------------------------------
(* SimpleScanner.scan_file *)

\* if not os.path.exists(file_path): print; return
scan_file_not_found ==
    /\ pc = "ready"
    /\ read' = "missing"
    /\ stdout' = Append(stdout, Line("error", "File not found", 0))
    /\ pc' = "done"
    /\ UNCHANGED <<HAS_NUMPY, model, data, file_size, entropy, prediction,
                   prob, confidence, exc, vis_vars>>

\* open or f.read raises: print; return
scan_file_read_error ==
    /\ pc = "ready"
    /\ read' = "error"
    /\ stdout' = stdout \o <<Line("info", "Scanning", 0),
                             Line("error", "Error reading file", 0)>>
    /\ pc' = "done"
    /\ UNCHANGED <<HAS_NUMPY, model, data, file_size, entropy, prediction,
                   prob, confidence, exc, vis_vars>>

\* the bytes are read, measured and the measurements printed
scan_file_read ==
    /\ pc = "ready"
    /\ \E f \in Files :
          LET size == BufLen(f)
              ent == calculate_entropy(f)
          IN  /\ data' = f
              /\ file_size' = size
              /\ entropy' = ent
              /\ stdout' = stdout \o <<Line("info", "Scanning", 0),
                                       Line("info", "Analysis Results", 0),
                                       Line("size", "File Size", size),
                                       Line("entropy", "Entropy", Format4(ent))>>
    /\ read' = "ok"
    /\ pc' = "analysed"
    /\ UNCHANGED <<HAS_NUMPY, model, prediction, prob, confidence, exc,
                   vis_vars>>

\* if self.model and HAS_NUMPY: ... else: ...
scan_file_dispatch ==
    /\ pc = "analysed"
    /\ pc' = IF use_model THEN "predict" ELSE "heuristic"
    /\ UNCHANGED <<HAS_NUMPY, model, scan_locals, stdout, vis_vars>>

\* prediction = self.model.predict(features)
predict_returns ==
    /\ pc = "predict"
    /\ \E p \in Predictions : prediction' = p
    /\ pc' = "proba"
    /\ UNCHANGED <<HAS_NUMPY, model, read, data, file_size, entropy, prob,
                   confidence, exc, stdout, vis_vars>>

predict_raises ==
    /\ pc = "predict"
    /\ exc' = "predict"
    /\ pc' = "except"
    /\ UNCHANGED <<HAS_NUMPY, model, read, data, file_size, entropy,
                   prediction, prob, confidence, stdout, vis_vars>>

\* prob = self.model.predict_proba(features); confidence = max(prob[0]) * 100
predict_proba_returns ==
    /\ pc = "proba"
    /\ model.has_predict_proba
    /\ \E p \in ProbOutputs :
          /\ prob' = p
          /\ confidence' = confidence_of(p)
    /\ pc' = "report"
    /\ UNCHANGED <<HAS_NUMPY, model, read, data, file_size, entropy,
                   prediction, exc, stdout, vis_vars>>

predict_proba_raises ==
    /\ pc = "proba"
    /\ model.has_predict_proba
    /\ exc' = "predict_proba"
    /\ pc' = "except"
    /\ UNCHANGED <<HAS_NUMPY, model, read, data, file_size, entropy,
                   prediction, prob, confidence, stdout, vis_vars>>

\* else: confidence = 100.0
no_predict_proba ==
    /\ pc = "proba"
    /\ ~model.has_predict_proba
    /\ confidence' = Num(FullConfidence * ProbScale)
    /\ pc' = "report"
    /\ UNCHANGED <<HAS_NUMPY, model, read, data, file_size, entropy,
                   prediction, prob, exc, stdout, vis_vars>>

\* prediction[0] raises IndexError: nothing was predicted
report_index_error ==
    /\ pc = "report"
    /\ prediction = <<>>
    /\ exc' = "index"
    /\ pc' = "except"
    /\ UNCHANGED <<HAS_NUMPY, model, read, data, file_size, entropy,
                   prediction, prob, confidence, stdout, vis_vars>>

\* print Verdict; print Confidence
report_verdict ==
    /\ pc = "report"
    /\ prediction # <<>>
    /\ confidence.t = "num"
    /\ stdout' = stdout \o <<Line("verdict", status_of(prediction), 0),
                             Line("confidence", "Confidence",
                                  Format2(confidence))>>
    /\ pc' = "done"
    /\ UNCHANGED <<HAS_NUMPY, model, scan_locals, vis_vars>>

\* print Verdict; f"{confidence:.2f}" raises, confidence being no number
report_format_error ==
    /\ pc = "report"
    /\ prediction # <<>>
    /\ confidence.t # "num"
    /\ stdout' = Append(stdout, Line("verdict", status_of(prediction), 0))
    /\ exc' = "format"
    /\ pc' = "except"
    /\ UNCHANGED <<HAS_NUMPY, model, read, data, file_size, entropy,
                   prediction, prob, confidence, vis_vars>>

\* the handler with the fallback left out
except_handler_silent ==
    /\ pc = "except"
    /\ stdout' = Append(stdout, Line("failed", exc, 0))
    /\ pc' = "done"
    /\ UNCHANGED <<HAS_NUMPY, model, scan_locals, vis_vars>>

\* except Exception as e: print; self._heuristic_scan(entropy, file_size)
except_handler ==
    /\ pc = "except"
    /\ stdout' = stdout \o <<Line("failed", exc, 0)>>
                        \o heuristic_scan(entropy, file_size)
    /\ pc' = "done"
    /\ UNCHANGED <<HAS_NUMPY, model, scan_locals, vis_vars>>

\* else: self._heuristic_scan(entropy, file_size)
heuristic_direct ==
    /\ pc = "heuristic"
    /\ stdout' = stdout \o heuristic_scan(entropy, file_size)
    /\ pc' = "done"
    /\ UNCHANGED <<HAS_NUMPY, model, scan_locals, vis_vars>>

---------------------------------------------------------------------------
(* The scanner's specification: main() constructs a scanner and scans *)

VisIdle ==
    /\ v_pc = "unused"
    /\ v_data = <<>>
    /\ v_window = 0
    /\ v_result = [kind |-> "none", value |-> <<>>, error |-> ""]

Init ==
    /\ pc = "construct"
    /\ HAS_NUMPY \in BOOLEAN
    /\ model = NoModel
    /\ read = "pending"
    /\ data = <<>>
    /\ file_size = 0
    /\ entropy = 0
    /\ prediction = <<>>
    /\ prob = NoProb
    /\ confidence = Num(0)
    /\ exc = "none"
    /\ stdout = <<>>
    /\ VisIdle

Next ==
    \/ load_model_no_numpy
    \/ load_model_no_file
    \/ load_model_raises
    \/ load_model_loads
    \/ scan_file_not_found
    \/ scan_file_read_error
    \/ scan_file_read
    \/ scan_file_dispatch
    \/ predict_returns
    \/ predict_raises
    \/ predict_proba_returns
    \/ predict_proba_raises
    \/ no_predict_proba
    \/ report_index_error
    \/ report_verdict
    \/ report_format_error
    \/ except_handler
    \/ heuristic_direct

Spec == Init /\ [][Next]_vars

---------------------------------------------------------------------------
(* calculate_local_entropy *)

Returned(list) == [kind |-> "return", value |-> list, error |-> ""]
Raised(error) == [kind |-> "raise", value |-> <<>>, error |-> error]
NoResult == [kind |-> "none", value |-> <<>>, error |-> ""]

\* range that stops before a trailing partial step
RECURSIVE PyRangeWhole(_, _, _)
PyRangeWhole(start, stop, step) ==
    IF step > 0 /\ start + step <= stop
    THEN <<start>> \o PyRangeWhole(start + step, stop, step)
    ELSE <<>>

\* range(start, stop, step), step # 0
RECURSIVE PyRange(_, _, _)
PyRange(start, stop, step) ==
    IF (step > 0 /\ start < stop) \/ (step < 0 /\ start > stop)
    THEN <<start>> \o PyRange(start + step, stop, step)
    ELSE <<>>

\* seq[i:j] for 0 <= i <= j
PySlice(seq, i, j) == SubSeq(seq, i + 1, Min(j, Len(seq)))

\* the bucket of `byte` after: for byte in chunk: byte_counts[byte] += 1
chunk_count(chunk, byte) == Cardinality({i \in 1..Len(chunk) : chunk[i] = byte})

\* entropy -= p * math.log(p, 256), over the buckets lo..hi
RECURSIVE chunk_sum(_, _, _)
chunk_sum(chunk, lo, hi) ==
    IF lo = hi
    THEN LET count == chunk_count(chunk, lo)
         IN  IF count = 0 THEN 0
             ELSE count * (LgFix(Len(chunk)) - LgFix(count))
    ELSE LET mid == (lo + hi) \div 2
         IN  chunk_sum(chunk, lo, mid) + chunk_sum(chunk, mid + 1, hi)

\* the entropy of one chunk, visualize_entropy.py:25-37
chunk_entropy(chunk) == chunk_sum(chunk, 0, NumByteValues - 1) \div Len(chunk)

\* the loop over range(0, len(data), window_size): the entropies appended
\* for the start offsets offs[k..], the loop ending at an empty chunk
RECURSIVE local_loop(_, _, _, _)
local_loop(bytes, window_size, offs, k) ==
    IF k > Len(offs) THEN <<>>
    ELSE LET chunk == PySlice(bytes, offs[k], offs[k] + window_size)
         IN  IF chunk = <<>> THEN <<>>
             ELSE <<chunk_entropy(chunk)>>
                  \o local_loop(bytes, window_size, offs, k + 1)

calculate_local_entropy(bytes, window_size) ==
    IF Len(bytes) < window_size THEN Returned(<<0>>)
    ELSE IF window_size = 0 THEN Raised("ValueError")
    ELSE Returned(local_loop(bytes, window_size,
                             PyRange(0, Len(bytes), window_size), 1))

Windows == (0 - MaxWindow)..MaxWindow

call_calculate_local_entropy ==
    /\ v_pc = "call"
    /\ v_result' = calculate_local_entropy(v_data, v_window)
    /\ v_pc' = "done"
    /\ UNCHANGED <<scan_vars, v_data, v_window>>

InitVis ==
    /\ pc = "unused"
    /\ HAS_NUMPY = FALSE
    /\ model = NoModel
    /\ read = "pending"
    /\ data = <<>>
    /\ file_size = 0
    /\ entropy = 0
    /\ prediction = <<>>
    /\ prob = NoProb
    /\ confidence = Num(0)
    /\ exc = "none"
    /\ stdout = <<>>
    /\ v_pc = "call"
    /\ v_data \in SmallBuffers
    /\ v_window \in Windows
    /\ v_result = [kind |-> "none", value |-> <<>>, error |-> ""]

NextVis == call_calculate_local_entropy

SpecVis == InitVis /\ [][NextVis]_vars

---------------------------------------------------------------------------
(* Properties *)

IsVerdict(l) == l.k = "verdict"
IsVerdictOrReason(l) == l.k = "verdict" \/ l.k = "reason"

Verdicts == SelectSeq(stdout, IsVerdict)

Printed(text) == \E i \in 1..Len(stdout) : stdout[i].s = text

LoadedOk == Printed("Model loaded successfully")
HeuristicRan == Printed("Using Heuristic Analysis")

ModelAttempted == {"predict", "proba", "report"}

\* the last two lines printed: a verdict, then its reason or confidence
LastVerdict == stdout[Len(stdout) - 1]
LastLine == stdout[Len(stdout)]

\* C1: a scan whose bytes were read prints exactly one verdict before it
\* returns, whatever the model does.
ExactlyOneVerdict ==
    (pc = "done" /\ read = "ok") => Len(Verdicts) = 1

\* C2: when predict raises, the error is caught (control is in the handler,
\* or scan_file has returned), and the verdict and reason printed are those
\* _heuristic_scan prints for the same entropy and file size.
PredictFailureFallsBack ==
    exc = "predict" =>
        /\ pc \in {"except", "done"}
        /\ pc = "done" =>
              SelectSeq(stdout, IsVerdictOrReason)
                = SelectSeq(heuristic_scan(entropy, file_size),
                            IsVerdictOrReason)

PredictFailureWitness ==
    /\ pc = "done"
    /\ exc = "predict"
    /\ LoadedOk
    /\ file_size > LargeFileSize

\* C3: the model branch is entered exactly when a model was loaded; the
\* heuristic is entered only from the dispatch without a loaded model, or
\* from the handler after the model branch raised; the model branch ends in
\* done or in the handler; the heuristic prints only from those two places
\* and then the scan is done.
PipelineStep ==
    /\ pc = "analysed" =>
          pc' = IF LoadedOk THEN "predict" ELSE "heuristic"
    /\ (pc' \in ModelAttempted /\ pc # pc') =>
          pc \in ModelAttempted \cup {"analysed"}
    /\ (pc' = "heuristic" /\ pc # pc') => (pc = "analysed" /\ ~LoadedOk)
    /\ (pc' = "except" /\ pc # pc') =>
          (pc \in ModelAttempted /\ exc' # "none")
    /\ (pc \in ModelAttempted /\ pc # pc') =>
          pc' \in ModelAttempted \cup {"except", "done"}
    /\ (pc \in ModelAttempted /\ pc' = "done") => (exc' = "none" /\ ~HeuristicRan')
    /\ (HeuristicRan' /\ ~HeuristicRan) =>
          (pc \in {"heuristic", "except"} /\ pc' = "done")
    /\ pc \in {"heuristic", "except"} => pc' \in {pc, "done"}

PipelineOrder == [][PipelineStep]_vars

PipelineWitness ==
    /\ pc = "done"
    /\ LoadedOk
    /\ exc # "none"
    /\ HeuristicRan
    /\ entropy = 0

\* C4: for an entropy above 7/8 of the maximum, the heuristic classifier
\* answers Suspicious, high entropy, whatever the size.
HighEntropyIsSuspicious ==
    (pc = "done" /\ HeuristicRan /\ entropy * 8 > 7 * EntropyOne) =>
        /\ LastVerdict.s = "SUSPICIOUS"
        /\ LastLine.s = "High entropy detected"

\* C5: for an entropy of at most 7/8 of the maximum, the heuristic
\* classifier answers Suspicious, low entropy for large file, exactly when
\* the entropy is below 3/8 and the size above 10000, and Clean otherwise.
LowEntropyRule ==
    (pc = "done" /\ HeuristicRan /\ entropy * 8 <= 7 * EntropyOne) =>
        IF entropy * 8 < 3 * EntropyOne /\ file_size > 10000
        THEN /\ LastVerdict.s = "SUSPICIOUS"
             /\ LastLine.s = "Low entropy for large file"
        ELSE /\ LastVerdict.s = "CLEAN"
             /\ LastLine.s = "Entropy levels within normal parameters"

\* C6: when the model branch completes, the verdict is MALICIOUS for the
\* label 1 and BENIGN for the label 0, and the confidence printed (in
\* hundredths of a percent) is 100 times the largest class probability when
\* the model has predict_proba, and 100.00 otherwise.
ModelVerdict ==
    (pc = "done" /\ read = "ok" /\ LoadedOk /\ exc = "none") =>
        /\ Len(stdout) >= 2
        /\ LastVerdict.k = "verdict"
        /\ prediction[1] = 1 => LastVerdict.s = "MALICIOUS"
        /\ prediction[1] = 0 => LastVerdict.s = "BENIGN"
        /\ LastLine.k = "confidence"
        /\ IF model.has_predict_proba
           THEN LastLine.n * ProbScale = 10000 * SeqMax(prob.row)
           ELSE LastLine.n = 10000

ModelVerdictWitness ==
    /\ pc = "done"
    /\ exc = "none"
    /\ LoadedOk
    /\ model.has_predict_proba
    /\ prediction = <<1>>
    /\ SeqMax(prob.row) < ProbScale

\* the distinct byte values of a buffer given as segments
DistinctBytes(buf) == UNION {buf[i][1]..buf[i][2] : i \in 1..Len(buf)}

\* C8: the entropy of the bytes read is 0 exactly when the buffer is empty
\* or repeats one byte value; with two or more distinct values it is above
\* 0 and at most 1.0.
EntropyZeroIffConstant ==
    read = "ok" =>
        LET distinct == Cardinality(DistinctBytes(data))
        IN  /\ entropy = 0 <=> distinct <= 1
            /\ distinct >= 2 => (0 < entropy /\ entropy <= EntropyOne)

EntropyWitness ==
    /\ read = "ok"
    /\ Cardinality(DistinctBytes(data)) = 2
    /\ file_size = 3
    /\ entropy > 0

Ceil(a, b) == (a + b - 1) \div b

\* C7: for a window size above 0, a buffer at least as long as the window
\* gives one entropy per consecutive chunk, ceil(len/window) of them, in
\* buffer order, the trailing partial chunk included; a shorter buffer
\* gives [0].
LocalEntropyShape ==
    (v_pc = "done" /\ v_window > 0) =>
        /\ v_result.kind = "return"
        /\ IF Len(v_data) >= v_window
           THEN /\ Len(v_result.value) = Ceil(Len(v_data), v_window)
                /\ \A i \in 1..Len(v_result.value) :
                      v_result.value[i] =
                        calculate_entropy(Explicit(
                            SubSeq(v_data, (i - 1) * v_window + 1,
                                   Min(i * v_window, Len(v_data)))))
           ELSE v_result.value = <<0>>

LocalEntropyWitness ==
    /\ v_pc = "done"
    /\ v_window = 2
    /\ Len(v_data) = 3
    /\ v_data[1] # v_data[2]
    /\ Len(v_result.value) = 2

\* C9: a window size of 0 or less is rejected with an error for every
\* buffer; no list is returned.
NonPositiveWindowRejected ==
    (v_pc = "done" /\ v_window <= 0) => v_result.kind = "raise"

IsConfidence(l) == l.k = "confidence"

====
